---- MODULE Spec2Model ----
(***************************************************************************)
(* The session controller of the Prophecies web front end: the Cell and    *)
(* Grid components, the two timers they arm (pondering, bot move), and the *)
(* wasm engine they drive.  Every action is one browser task: React event  *)
(* handlers and timer callbacks run to completion, so a handler together   *)
(* with the re-render it causes is one atomic step.                        *)
(***************************************************************************)
EXTENDS Integers, Sequences, FiniteSets, TLC

(* ------------------------------ bounds -------------------------------- *)
\* Grid dimensions (the page mounts 4 x 4; the model uses a smaller board).
NRows == 2
NCols == 2
\* Largest value the engine accepts in a cell (0 is the blank marker).
MaxGuess == 1
\* Longest text typed into a cell.
MaxLen == 2
\* Largest visit count the engine reports for its best edge.
MaxVisits == 1

(* ------------------------- program constants -------------------------- *)
HUMAN_PLAYER == 0
BOT_PLAYER == 1
\* JavaScript null, as stored in guess / player / activePlayer.
null == -1
\* JavaScript NaN, as returned by parseInt on text with no leading digits.
NaN == -2
\* JavaScript undefined, as the engine reports an unfilled cell's fields.
undefined == -3
\* An absent win probability (winProb: null); a present one is <<num, den>>.
nullProb == <<>>

Cells == (0 .. NRows - 1) \X (0 .. NCols - 1)

(* --------------------------- typed text ------------------------------- *)
\* Characters a user types: the blank marker, a digit, one other letter.
Alphabet == {"X", "1", "a"}
DigitChars == <<"0", "1", "2", "3", "4", "5", "6", "7", "8", "9">>
Tokens == UNION {[1 .. n -> Alphabet] : n \in 0 .. MaxLen}

IsDigit(ch) == \E i \in 1 .. 10 : DigitChars[i] = ch
DigitValue(ch) == (CHOOSE i \in 1 .. 10 : DigitChars[i] = ch) - 1

\* The tokens section 4.1 of the specification calls syntactically legal.
IsDigits(s) == Len(s) >= 1 /\ \A i \in 1 .. Len(s) : IsDigit(s[i])
LegalToken(s) == s = <<>> \/ s = <<"X">> \/ IsDigits(s)

\* new RegExp("^X|[0-9]+$").test(s): the alternation binds loosest, so the
\* pattern is (^X) | ([0-9]+$): text that starts with X, or ends in a digit.
legalActionRegex(s) ==
    \/ Len(s) >= 1 /\ s[1] = "X"
    \/ Len(s) >= 1 /\ IsDigit(s[Len(s)])

\* parseInt(s, 10): the value of the longest prefix of digits, NaN when that
\* prefix is empty (the alphabet has no sign or white space to skip).
RECURSIVE DigitPrefixLen(_, _)
DigitPrefixLen(s, i) ==
    IF i > Len(s) \/ ~IsDigit(s[i]) THEN i - 1 ELSE DigitPrefixLen(s, i + 1)
RECURSIVE DigitsValue(_, _)
DigitsValue(s, n) ==
    IF n = 0 THEN 0 ELSE 10 * DigitsValue(s, n - 1) + DigitValue(s[n])
parseInt(s) ==
    LET n == DigitPrefixLen(s, 1) IN IF n = 0 THEN NaN ELSE DigitsValue(s, n)

\* String(n) for a guess n >= 0, as the input element shows it.
RECURSIVE NumberToString(_)
NumberToString(n) ==
    IF n < 10 THEN <<DigitChars[n + 1]>>
    ELSE Append(NumberToString(n \div 10), DigitChars[(n % 10) + 1])

(* ------------------- the engine (wasm.WasmBot) ------------------------ *)
\* The engine is an opaque collaborator; its contract is sections 4.2 and 6
\* of the specification.  status: "none" before WasmBot.new, "live", and
\* "freed" after free().
EngineEmptyCell == [guess |-> undefined, player |-> undefined]
NoBot ==
    [status |-> "none", grid |-> [c \in Cells |-> EngineEmptyCell],
     active |-> HUMAN_PLAYER, searched |-> FALSE]
WasmBot_new(firstMover) ==
    [status |-> "live", grid |-> [c \in Cells |-> EngineEmptyCell],
     active |-> firstMover, searched |-> FALSE]

get_cell(b, cell) == b.grid[cell]
is_finished(b) == \A c \in Cells : b.grid[c].player # undefined
\* activeParticipant: None once the session is finished.
get_active_player(b) == IF is_finished(b) THEN null ELSE b.active
PlayerScore(b, p) ==
    Cardinality({c \in Cells : b.grid[c].player = p /\ b.grid[c].guess > 0})
get_scores(b) == <<PlayerScore(b, HUMAN_PLAYER), PlayerScore(b, BOT_PLAYER)>>

\* A number crossing into wasm as an integer parameter: NaN becomes 0.
ToWasmInt(v) == IF v = NaN THEN 0 ELSE v
\* place fails with IllegalMove when the cell is filled, the coordinates are
\* out of bounds, or the value breaks the engine's rules.
PlaceLegal(b, row, col, guess) ==
    /\ <<row, col>> \in Cells
    /\ b.grid[<<row, col>>].player = undefined
    /\ ToWasmInt(guess) \in 0 .. MaxGuess
Other(p) == IF p = HUMAN_PLAYER THEN BOT_PLAYER ELSE HUMAN_PLAYER
place(b, row, col, guess) ==
    [b EXCEPT !.grid[<<row, col>>] =
                  [guess |-> ToWasmInt(guess), player |-> b.active],
              !.active = Other(b.active)]
playout(b) == [b EXCEPT !.searched = TRUE]
\* bestAction: the recommendations the engine may answer with; NoEdge is
\* "no recommendation" (no search work yet, or the session is finished).
NoCall == [row |-> null, col |-> null, guess |-> null]
NoEdge == [action |-> NoCall, score |-> 0, visits |-> 0]
EdgesAt(c, g) ==
    UNION {{[action |-> [row |-> c[1], col |-> c[2], guess |-> g],
             score |-> s, visits |-> v] : s \in {-v, v}} :
           v \in 1 .. MaxVisits}
get_best_action(b) ==
    IF ~b.searched \/ is_finished(b) THEN {NoEdge}
    ELSE UNION {EdgesAt(c, g) :
                c \in {x \in Cells : b.grid[x].player = undefined},
                g \in 0 .. MaxGuess}
\* A method called on a freed handle raises (null pointer passed to wasm).
Disposed(b) == b.status = "freed"

(* ---------------------------- the state ------------------------------- *)
VARIABLES
    bot,           \* Grid.bot: the engine handle and what the engine holds
    shouldPonder,  \* Grid.shouldPonder (undefined before mount reads as FALSE)
    state,         \* Grid.state: the Session Snapshot the page renders
    content,       \* Cell.state.content of every cell
    ponderTimers,  \* pending window.setTimeout(ponder, PONDER_INTERVAL)
    botTimers,     \* pending window.setTimeout(takeBotAction, 0)
    last,          \* what the task that ran last did at the engine boundary
    exhausted      \* history: some takeBotAction found no recommendation

vars ==
    <<bot, shouldPonder, state, content, ponderTimers, botTimers, last,
      exhausted>>

NoCell == <<null, null>>
Idle(task) ==
    [task |-> task, cell |-> NoCell, forwarded |-> FALSE, placed |-> NoCall,
     result |-> "none", playout |-> FALSE]

(* ------------------------ Grid: the snapshot -------------------------- *)
\* getWinProb, given the answer `edge` of its one get_best_action call.
getWinProbAnyTurn(b, edge) ==
    IF b.status = "none" THEN nullProb
    ELSE IF edge = NoEdge THEN nullProb
    ELSE <<edge.visits + edge.score, 2 * edge.visits>>
getWinProb(b, edge) ==
    IF b.status = "none" THEN nullProb
    ELSE IF get_active_player(b) # HUMAN_PLAYER THEN nullProb
    ELSE IF edge = NoEdge THEN nullProb
    ELSE <<edge.visits + edge.score, 2 * edge.visits>>

\* One cell of getGameState's grid: undefined engine fields become null.
getGameStateCellOwnerByTurn(b, c) ==
    IF b.status # "none"
    THEN LET cell == get_cell(b, c) IN
         [guess |-> IF cell.guess # undefined THEN cell.guess ELSE null,
          player |-> IF cell.player # undefined THEN b.active ELSE null]
    ELSE [guess |-> null, player |-> null]
getGameStateCell(b, c) ==
    IF b.status # "none"
    THEN LET cell == get_cell(b, c) IN
         [guess |-> IF cell.guess # undefined THEN cell.guess ELSE null,
          player |-> IF cell.player # undefined THEN cell.player ELSE null]
    ELSE [guess |-> null, player |-> null]

getGameState(b, edge) ==
    [activePlayer |->
         IF b.status # "none" THEN get_active_player(b) ELSE HUMAN_PLAYER,
     winProb |-> getWinProb(b, edge),
     scores |-> IF b.status # "none" THEN get_scores(b) ELSE <<0, 0>>,
     grid |-> [c \in Cells |-> getGameStateCell(b, c)]]

\* Grid.render arms one takeBotAction timer when the snapshot it renders has
\* the bot as active player; bt is the number of timers already pending.
render(st, bt) == IF st.activePlayer = BOT_PLAYER THEN bt + 1 ELSE bt

\* Grid is a PureComponent: setState re-renders only when the state differs.
rerender(old, new, bt) == IF new # old THEN render(new, bt) ELSE bt

(* ------------------------ Grid: the handlers -------------------------- *)
\* takeAction: the outcomes of bot.place followed by setState(getGameState()).
\* place raises on a freed handle and on an illegal move; then nothing else
\* of takeAction runs.
takeActionNoRefresh(b, st, bt, action) ==
    IF Disposed(b) \/ ~PlaceLegal(b, action.row, action.col, action.guess)
    THEN {[bot |-> b, state |-> st, botTimers |-> bt, threw |-> TRUE]}
    ELSE {[bot |-> place(b, action.row, action.col, action.guess),
           state |-> st, botTimers |-> bt, threw |-> FALSE]}
takeAction(b, st, bt, action) ==
    IF Disposed(b) \/ ~PlaceLegal(b, action.row, action.col, action.guess)
    THEN {[bot |-> b, state |-> st, botTimers |-> bt, threw |-> TRUE]}
    ELSE LET b2 == place(b, action.row, action.col, action.guess) IN
         {[bot |-> b2, state |-> getGameState(b2, e),
           botTimers |-> render(getGameState(b2, e), bt), threw |-> FALSE] :
          e \in get_best_action(b2)}

\* onCellInputBlur: the action it hands to takeAction, NoCall when it returns
\* early.  cellValue is e.currentTarget.value.
onCellInputBlur(row, col, cellValue) ==
    IF state.grid[<<row, col>>].player # null THEN NoCall
    ELSE IF cellValue = <<>> \/ ~legalActionRegex(cellValue) THEN NoCall
    ELSE [row |-> row, col |-> col,
          guess |-> IF cellValue = <<"X">> THEN 0 ELSE parseInt(cellValue)]

\* Cell.getContent: the text the input element of a cell shows.
getContent(cell) ==
    IF state.grid[cell].guess = null THEN content[cell]
    ELSE IF state.grid[cell].guess = 0 THEN <<"X">>
    ELSE NumberToString(state.grid[cell].guess)

\* Cell.onBlur up to its call of props.onBlur(row, col, e).
CellOnBlurSwapped(cell) ==
    IF legalActionRegex(content[cell])
    THEN onCellInputBlur(cell[2], cell[1], getContent(cell))
    ELSE NoCall
CellOnBlur(cell) ==
    IF legalActionRegex(content[cell])
    THEN onCellInputBlur(cell[1], cell[2], getContent(cell))
    ELSE NoCall

\* Cell.onBlur's try/catch around props.onBlur: what becomes of a raise.
CellOnBlurNoCatch == "uncaught"
CellOnBlurCatch == "caught"

\* takeBotAction's shouldPonder after get_best_action answered.
takeBotActionPonderKeep(edge, sp) == sp
takeBotActionPonderLegacy(edge, sp) == TRUE
takeBotActionPonder(edge, sp) == IF edge = NoEdge THEN FALSE ELSE sp

\* takeBotAction with bt timers still pending: its outcomes.
takeBotAction(b, sp, st, bt) ==
    IF Disposed(b)
    THEN {[bot |-> b, shouldPonder |-> sp, state |-> st, botTimers |-> bt,
           placed |-> NoCall, result |-> "uncaught", playout |-> FALSE]}
    ELSE LET b1 == playout(b) IN
         UNION {IF edge = NoEdge
                THEN {[bot |-> b1, shouldPonder |-> takeBotActionPonder(edge, sp),
                       state |-> st, botTimers |-> bt, placed |-> NoCall,
                       result |-> "none", playout |-> TRUE]}
                ELSE {[bot |-> o.bot,
                       shouldPonder |-> takeBotActionPonder(edge, sp),
                       state |-> o.state, botTimers |-> o.botTimers,
                       placed |-> edge.action,
                       result |-> IF o.threw THEN "uncaught" ELSE "ok",
                       playout |-> TRUE] :
                      o \in takeAction(b1, st, bt, edge.action)} :
                edge \in get_best_action(b1)}

\* ponder's check of the engine before a cycle's search.
ponderSeesFinishedLegacy(b) == FALSE
ponderSeesFinished(b) == is_finished(b)

\* ponder's first check: it returns at once when shouldPonder is false.
ponderHaltedNever(sp) == FALSE
ponderHalted(sp) == ~sp

\* ponder's one setTimeout(ponder, PONDER_INTERVAL), after its search loop.
ponderScheduleInLoop(pt) == pt + 2
ponderSchedule(pt) == pt + 1

\* ponder with pt pondering timers and bt bot timers still pending.
ponder(b, sp, st, pt, bt) ==
    IF ponderHalted(sp)
    THEN {[bot |-> b, shouldPonder |-> sp, state |-> st, ponderTimers |-> pt,
           botTimers |-> bt, playout |-> FALSE]}
    ELSE IF ponderSeesFinished(b)
    THEN {[bot |-> b, shouldPonder |-> FALSE, state |-> st,
           ponderTimers |-> pt, botTimers |-> bt, playout |-> FALSE]}
    ELSE LET b1 == playout(b) IN
         {[bot |-> b1, shouldPonder |-> sp,
           state |-> [st EXCEPT !.winProb = getWinProb(b1, e)],
           ponderTimers |-> ponderSchedule(pt),
           botTimers |-> rerender(st, [st EXCEPT !.winProb = getWinProb(b1, e)], bt),
           playout |-> TRUE] :
          e \in get_best_action(b1)}

(* ----------------------------- the tasks ------------------------------ *)
\* After the constructor: no engine yet, the default snapshot.
Init ==
    /\ bot = NoBot
    /\ shouldPonder = FALSE
    /\ state = getGameState(NoBot, NoEdge)
    /\ content = [c \in Cells |-> <<>>]
    /\ ponderTimers = 0
    /\ botTimers = 0
    /\ last = Idle("init")
    /\ exhausted = FALSE

\* componentDidMount.
Mount ==
    /\ bot.status = "none"
    /\ LET b1 == WasmBot_new(HUMAN_PLAYER) IN
       \E e \in get_best_action(b1) :
       \E o \in ponder(b1, TRUE, getGameState(b1, e), ponderTimers,
                       render(getGameState(b1, e), botTimers)) :
          /\ bot' = o.bot
          /\ shouldPonder' = o.shouldPonder
          /\ state' = o.state
          /\ ponderTimers' = o.ponderTimers
          /\ botTimers' = o.botTimers
          /\ last' = [Idle("mount") EXCEPT !.playout = o.playout]
    /\ UNCHANGED <<content, exhausted>>

\* Cell.onChange: the user types in the one focused, enabled input.
Change(cell, tok) ==
    /\ bot.status = "live"
    /\ state.grid[cell].guess = null
    /\ \A c \in Cells \ {cell} : content[c] = <<>>
    /\ content' = [content EXCEPT ![cell] = tok]
    /\ last' = Idle("change")
    /\ UNCHANGED <<bot, shouldPonder, state, ponderTimers, botTimers, exhausted>>

\* Cell.onBlur, with Grid.onCellInputBlur and takeAction below it.
Blur(cell) ==
    /\ bot.status = "live"
    /\ LET call == CellOnBlur(cell)
           entry == [Idle("blur") EXCEPT
                        !.cell = cell,
                        !.forwarded = legalActionRegex(content[cell]),
                        !.placed = call]
       IN IF call = NoCall
          THEN /\ last' = entry
               /\ content' = [content EXCEPT ![cell] = <<>>]
               /\ UNCHANGED <<bot, state, botTimers>>
          ELSE \E o \in takeAction(bot, state, botTimers, call) :
               /\ bot' = o.bot
               /\ state' = o.state
               /\ botTimers' = o.botTimers
               /\ last' = [entry EXCEPT
                              !.result = IF o.threw THEN CellOnBlurCatch ELSE "ok"]
               /\ content' = IF o.threw /\ CellOnBlurCatch = "uncaught"
                             THEN content
                             ELSE [content EXCEPT ![cell] = <<>>]
    /\ UNCHANGED <<shouldPonder, ponderTimers, exhausted>>

\* A pondering timer fires: ponder.
PonderTask ==
    /\ ponderTimers > 0
    /\ \E o \in ponder(bot, shouldPonder, state, ponderTimers - 1, botTimers) :
          /\ bot' = o.bot
          /\ shouldPonder' = o.shouldPonder
          /\ state' = o.state
          /\ ponderTimers' = o.ponderTimers
          /\ botTimers' = o.botTimers
          /\ last' = [Idle("ponder") EXCEPT !.playout = o.playout]
    /\ UNCHANGED <<content, exhausted>>

\* A bot timer fires: takeBotAction.
BotTask ==
    /\ botTimers > 0
    /\ \E o \in takeBotAction(bot, shouldPonder, state, botTimers - 1) :
          /\ bot' = o.bot
          /\ shouldPonder' = o.shouldPonder
          /\ state' = o.state
          /\ botTimers' = o.botTimers
          /\ last' = [Idle("bot") EXCEPT !.placed = o.placed,
                                         !.result = o.result,
                                         !.playout = o.playout]
          /\ exhausted' = (exhausted \/ (o.result = "none" /\ o.placed = NoCall))
    /\ UNCHANGED <<content, ponderTimers>>

\* componentWillUnmount; the Cell components and their typed text go too.
Unmount ==
    /\ bot.status = "live"
    /\ shouldPonder' = FALSE
    /\ bot' = [bot EXCEPT !.status = "freed"]
    /\ content' = [c \in Cells |-> <<>>]
    /\ last' = Idle("unmount")
    /\ UNCHANGED <<state, ponderTimers, botTimers, exhausted>>

Next ==
    \/ Mount
    \/ \E cell \in Cells, tok \in Tokens : Change(cell, tok)
    \/ \E cell \in Cells : Blur(cell)
    \/ PonderTask
    \/ BotTask
    \/ Unmount

Spec == Init /\ [][Next]_vars

(* ------------------------------ claims -------------------------------- *)
\* A step is a blur of `cell` exactly when it leaves last.task = "blur" and
\* last.cell = cell; the text committed is content[cell] before the step.
Filled(cell) == state.grid[cell].player # null

\* C1: text that fails the syntax validator never reaches place: a blur of an
\* unfilled cell that calls place committed the empty string, "X" or digits.
C1_IllegalTextNeverPlaced ==
    [][\A cell \in Cells :
         (last'.task = "blur" /\ last'.cell = cell /\ last'.placed # NoCall)
         => LegalToken(content[cell])]_vars

\* C2: a cell of the snapshot that is filled keeps its guess and its owner in
\* every later snapshot, so it is filled at most once and never emptied.
C2_CellsFillOnce ==
    [][\A c \in Cells :
         (state.grid[c].player # null \/ state.grid[c].guess # null)
         => state'.grid[c] = state.grid[c]]_vars
C2_Witness ==
    /\ \E c \in Cells : state.grid[c].player = HUMAN_PLAYER
    /\ \E c \in Cells : state.grid[c].player = BOT_PLAYER
    /\ last.task = "blur" /\ last.result = "ok"

\* C3: a blur of a cell that is already filled leaves the whole snapshot
\* (grid, scores, active player, win probability) as it was.
C3_BlurOnFilledIsNoOp ==
    [][\A cell \in Cells :
         (last'.task = "blur" /\ last'.cell = cell /\ Filled(cell))
         => state' = state]_vars
\* The blurred cell was filled while text was being typed into it, so the
\* text passed Cell.onBlur's test and Grid.onCellInputBlur returned early.
C3_Witness ==
    /\ last.task = "blur" /\ last.forwarded /\ last.placed = NoCall
    /\ last.cell \in Cells /\ state.grid[last.cell].player = BOT_PLAYER

\* C4: after mount, once shouldPonder is false it stays false, no pondering
\* cycle runs playout, and no further pondering timer is armed.
C4_HaltedStaysHalted ==
    [][(bot.status # "none" /\ ~shouldPonder)
       => /\ ~shouldPonder'
          /\ ponderTimers' <= ponderTimers
          /\ ~(last'.task = "ponder" /\ last'.playout)]_vars
\* A pondering timer fired after teardown and found pondering halted.
C4_Witness ==
    /\ Disposed(bot) /\ last.task = "ponder"
    /\ ~shouldPonder /\ ponderTimers = 0

\* C5: the snapshot carries a win probability only when its active player is
\* the human and the session is unfinished, and carries none whenever the
\* engine has no recommendation.
C5_WinProbOnlyOnHumanTurn ==
    /\ state.winProb # nullProb
       => /\ state.activePlayer = HUMAN_PLAYER
          /\ \E c \in Cells : state.grid[c].player = null
          /\ ~is_finished(bot)
    /\ get_best_action(bot) = {NoEdge} => state.winProb = nullProb
\* The estimate is back after the bot has moved and the turn returned.
C5_Witness ==
    /\ state.winProb # nullProb
    /\ \E c \in Cells : state.grid[c].player = BOT_PLAYER
    /\ last.task = "bot"

\* The cells of the snapshot that a step fills.
NewlyFilled == {c \in Cells : state.grid[c].player = null /\ state'.grid[c].player # null}

\* C6: a takeBotAction task that runs on a live session applies exactly one
\* placement, at a cell that was unfilled, and leaves the human as active
\* player or the session finished.
C6_BotTaskReturnsTurn ==
    [][(last'.task = "bot" /\ ~Disposed(bot))
       => /\ last'.result = "ok"
          /\ Cardinality(NewlyFilled) = 1
          /\ state'.activePlayer # BOT_PLAYER]_vars

\* C7: once the engine is finished no step changes the grid or has a
\* placement accepted; while shouldPonder is still true a pondering cycle is
\* pending, and that cycle clears shouldPonder and arms no successor.
C7_FinishedIsTerminal ==
    /\ [](is_finished(bot) /\ shouldPonder => ponderTimers = 1)
    /\ [][is_finished(bot)
          => /\ bot'.grid = bot.grid
             /\ state'.grid = state.grid
             /\ last'.result # "ok"
             /\ (last'.task = "ponder" /\ shouldPonder)
                => (~shouldPonder' /\ ponderTimers' = ponderTimers - 1)]_vars
\* A pondering cycle ran on the finished, still mounted session.
C7_Witness ==
    /\ is_finished(bot) /\ bot.status = "live"
    /\ last.task = "ponder" /\ ~shouldPonder /\ ponderTimers = 0

\* C8: a blur of an unfilled cell calls place exactly when the committed text
\* is "X" or a digit sequence, with guess 0 for "X" and the digits' value
\* otherwise; any other text calls nothing.
C8_ForwardIffLegal ==
    [][\A cell \in Cells :
         (last'.task = "blur" /\ last'.cell = cell /\ ~Filled(cell))
         => LET tok == content[cell] IN
            IF LegalToken(tok) /\ tok # <<>>
            THEN last'.placed =
                     [row |-> cell[1], col |-> cell[2],
                      guess |-> IF tok = <<"X">> THEN 0
                                ELSE DigitsValue(tok, Len(tok))]
            ELSE last'.placed = NoCall]_vars

\* C9: when place rejects a human move the raise is caught in Cell.onBlur
\* and engine, snapshot, flags and timers are what they were before.
C9_IllegalMoveIsNoOp ==
    [][(/\ last'.task = "blur"
        /\ last'.placed # NoCall
        /\ ~PlaceLegal(bot, last'.placed.row, last'.placed.col,
                       last'.placed.guess))
       => /\ last'.result = "caught"
          /\ bot' = bot
          /\ state' = state
          /\ shouldPonder' = shouldPonder
          /\ botTimers' = botTimers
          /\ ponderTimers' = ponderTimers]_vars
\* The engine refused a value above its range and the handler caught it.
C9_Witness ==
    /\ last.task = "blur" /\ last.result = "caught"
    /\ last.placed.guess > MaxGuess

\* C10: no task lets a raise of the engine escape it.
C10_NoEngineRaiseEscapes == last.result # "uncaught"

\* C11: componentWillUnmount runs on a live handle only, clears shouldPonder
\* and frees the handle; a pondering timer that fires after it returns at its
\* first check: no engine call, no snapshot change, no successor timer.
C11_TeardownStopsPondering ==
    /\ [][last'.task = "unmount"
          => /\ bot.status = "live" /\ bot'.status = "freed"
             /\ ~shouldPonder']_vars
    /\ [][Disposed(bot) => bot' = bot]_vars
    /\ [][(Disposed(bot) /\ last'.task = "ponder")
          => /\ ~last'.playout
             /\ state' = state
             /\ ~shouldPonder'
             /\ ponderTimers' = ponderTimers - 1]_vars
\* The pondering timer pending at teardown has fired, on the human's turn.
C11_Witness ==
    /\ Disposed(bot) /\ last.task = "ponder" /\ ~last.playout
    /\ state.activePlayer = HUMAN_PLAYER /\ ponderTimers = 0

\* C12: a takeBotAction timer that fires after teardown fails safely: its
\* call on the freed handle is caught and the freed engine is left alone.
C12_BotTaskAfterTeardownIsCaught ==
    [][(Disposed(bot) /\ last'.task = "bot")
       => (last'.result # "uncaught" /\ bot' = bot)]_vars

\* C13: a pondering cycle runs playout and re-arms its timer only while the
\* human is the active player and no takeBotAction timer is pending.
C13_PonderOnlyOnHumanTurn ==
    [][(last'.task = "ponder" /\ last'.playout)
       => (state.activePlayer = HUMAN_PLAYER /\ botTimers = 0)]_vars

EngineCell(c) ==
    [guess |-> IF bot.grid[c].guess = undefined THEN null ELSE bot.grid[c].guess,
     player |-> IF bot.grid[c].player = undefined THEN null
                ELSE bot.grid[c].player]

\* C16: once the engine exists, after every task the snapshot's grid, active
\* player and scores are the engine's; a pondering cycle changes nothing of
\* the snapshot but the win probability.
C16_SnapshotMirrorsEngine ==
    /\ [](bot.status # "none"
          => /\ \A c \in Cells : state.grid[c] = EngineCell(c)
             /\ state.activePlayer = get_active_player(bot)
             /\ state.scores = get_scores(bot))
    /\ [][last'.task = "ponder"
          => /\ state'.grid = state.grid
             /\ state'.scores = state.scores
             /\ state'.activePlayer = state.activePlayer]_vars
\* Both players have moved, and a pondering cycle then moved the estimate.
C16_Witness ==
    /\ bot.status = "live"
    /\ \E c \in Cells : state.grid[c].player = HUMAN_PLAYER
    /\ \E c \in Cells : state.grid[c].player = BOT_PLAYER
    /\ state.scores # <<0, 0>>
    /\ last.task = "ponder" /\ last.playout /\ state.winProb # nullProb

\* C17: a blur calls place only while the human is the engine's active
\* player, so a cell filled through a blur is owned by the human.
C17_HumanPlacesOnlyOnOwnTurn ==
    [][\A cell \in Cells :
         (last'.task = "blur" /\ last'.cell = cell /\ last'.placed # NoCall)
         => /\ get_active_player(bot) = HUMAN_PLAYER
            /\ last'.result = "ok" => state'.grid[cell].player = HUMAN_PLAYER]_vars

\* C18: a takeBotAction that calls place does so on the bot's turn of an
\* unfinished session, so the cell it fills is owned by the bot.
C18_BotPlacesOnlyOnOwnTurn ==
    [][(last'.task = "bot" /\ last'.placed # NoCall)
       => /\ get_active_player(bot) = BOT_PLAYER
          /\ \A c \in NewlyFilled : state'.grid[c].player = BOT_PLAYER]_vars

\* C19: at most one pondering timer is pending; only mount, which starts the
\* chain from none pending, ever raises the number, and a cycle that runs
\* arms at most the one that replaces it.
C19_OnePonderTimer ==
    /\ [](ponderTimers <= 1)
    /\ [][ponderTimers' > ponderTimers
          => (last'.task = "mount" /\ bot.status = "none" /\ ponderTimers = 0)]_vars
    /\ [][last'.task = "ponder" => ponderTimers' <= ponderTimers]_vars
\* A cycle has run and re-armed itself after both players moved.
C19_Witness ==
    /\ ponderTimers = 1 /\ last.task = "ponder" /\ last.playout
    /\ \E c \in Cells : state.grid[c].player = BOT_PLAYER
    /\ botTimers = 1

====
